---- MODULE Spec2Model ----
(***************************************************************************)
(* The /ocr handler of src/app.py (process_ocr): the table reconstruction  *)
(* that turns the OCR engine's detections into rows, column boundaries,    *)
(* cells and the JSON response.                                            *)
(*                                                                         *)
(* Numbers.  Coordinates are integers.  The code's floats are kept exact   *)
(* by scaling, so that every comparison of the code is the comparison of   *)
(* the model:                                                              *)
(*   - y and x (the code's "_y", "_x": the centres (min+max)/2) are held   *)
(*     doubled: y = y_min + y_max;                                         *)
(*   - row_threshold and gap_threshold are held in tenths:                 *)
(*     row_threshold = median_height * 7 stands for median_height * 0.7;   *)
(*   - confidences are held in ten-thousandths (round(conf, 4)).           *)
(* Strings are sequences of one-character strings.                         *)
(***************************************************************************)
EXTENDS Integers, Sequences, FiniteSets, TLC

VARIABLES
    pc,               \* position of the handler
    engine,           \* the detections the OCR engine can return for the document
    result,           \* result[0] of ocr.ocr(img): the detected lines
    raw_blocks,       \* local raw_blocks
    confidence_sum,   \* local confidence_sum
    count,            \* local count
    rows,             \* local rows
    row_threshold,    \* local row_threshold (tenths)
    col_boundaries,   \* local col_boundaries
    gap_threshold,    \* local gap_threshold (tenths)
    table_rows,       \* local table_rows
    blocks,           \* local blocks (the flattened non-empty cells)
    extracted_text,   \* local extracted_text
    bound,            \* the names of the locals the run has assigned so far
    status,           \* HTTP status of the response, 0 while running
    response,         \* the JSON body of the response
    logs,             \* request_logs.logs
    thread_pc,        \* per worker thread: idle or inside process_ocr
    request_logs,     \* the threading.local object: each thread's attributes
    request_of,       \* per thread: the request it is handling
    step,             \* per thread: how many emit_log calls its request has made
    emitted,          \* per thread: what its request has passed to emit_log
    handled,          \* per thread: how many requests it has begun
    reply,            \* per thread: its last response
    next_request      \* the next request to arrive

\* the state of one run of the handler
run == <<pc, engine, result, raw_blocks, confidence_sum, count, rows, row_threshold,
         col_boundaries, gap_threshold, table_rows, blocks, extracted_text, bound,
         status, response, logs>>

\* the state of the server's worker threads
server == <<thread_pc, request_logs, request_of, step, emitted, handled, reply,
            next_request>>

vars == <<run, server>>

-----------------------------------------------------------------------------
(* Bounds and inputs *)

MaxBlocks == 3
MaxRequests == 3

\* 0.7 and 0.3, in tenths
RowFactor == 7
GapFactor == 3
Tenths == 10

\* <<left, right>> of a rectangle; <<0, 0>> has no width, <<2, 0>> has its
\* corners out of reading order
XSpans == {<<0, 5>>, <<1, 6>>, <<2, 7>>, <<0, 0>>, <<2, 0>>}
\* <<top, bottom>>; <<0, 0>> has no height
YSpans == {<<0, 2>>, <<1, 3>>, <<0, 0>>}

\* recognised text with its confidence (ten-thousandths)
Recognised == {<<<<" ">>, 9000>>, <<<<"a", "1">>, 5000>>, <<<<"B">>, 7000>>}

\* a quadrilateral in reading order: top-left, top-right, bottom-right, bottom-left
Box(xs, ys) == << <<xs[1], ys[1]>>, <<xs[2], ys[1]>>, <<xs[2], ys[2]>>, <<xs[1], ys[2]>> >>

\* one line of result[0]: [box, (text, score)]
Lines(XS, YS, TS) == {<<Box(xs, ys), t>> : xs \in XS, ys \in YS, t \in TS}

\* geometry varies, one text
GeomLines == Lines(XSpans, YSpans, {<<<<"B">>, 7000>>})
\* texts and confidences vary, over two visual lines
CellLines == Lines({<<0, 5>>, <<1, 6>>, <<2, 7>>}, {<<0, 2>>, <<2, 4>>}, Recognised)

SeqsUpTo(S, n) == UNION {[1..k -> S] : k \in 0..n}

-----------------------------------------------------------------------------
(* Helpers: Python builtins *)

Min(a, b) == IF a <= b THEN a ELSE b
Max(a, b) == IF a >= b THEN a ELSE b
Abs(a) == IF a < 0 THEN -a ELSE a

\* sorted(values): stable insertion of v after the elements <= v
RECURSIVE InsertNum(_, _)
InsertNum(s, v) ==
    IF s = <<>> THEN <<v>>
    ELSE IF v < Head(s) THEN <<v>> \o s
    ELSE <<Head(s)>> \o InsertNum(Tail(s), v)

RECURSIVE Sorted(_)
Sorted(s) == IF s = <<>> THEN <<>> ELSE InsertNum(Sorted(SubSeq(s, 1, Len(s) - 1)), s[Len(s)])

\* list.sort(key=lambda b: b["_y"]): stable
RECURSIVE InsertByY(_, _)
InsertByY(s, b) ==
    IF s = <<>> THEN <<b>>
    ELSE IF b.y < Head(s).y THEN <<b>> \o s
    ELSE <<Head(s)>> \o InsertByY(Tail(s), b)

RECURSIVE SortByY(_)
SortByY(s) == IF s = <<>> THEN <<>> ELSE InsertByY(SortByY(SubSeq(s, 1, Len(s) - 1)), s[Len(s)])

\* list.sort(key=lambda b: b["_x_min"]): stable
RECURSIVE InsertByXMin(_, _)
InsertByXMin(s, b) ==
    IF s = <<>> THEN <<b>>
    ELSE IF b.x_min < Head(s).x_min THEN <<b>> \o s
    ELSE <<Head(s)>> \o InsertByXMin(Tail(s), b)

RECURSIVE SortByXMin(_)
SortByXMin(s) ==
    IF s = <<>> THEN <<>> ELSE InsertByXMin(SortByXMin(SubSeq(s, 1, Len(s) - 1)), s[Len(s)])

\* sep.join(parts)
RECURSIVE Join(_, _)
Join(sep, parts) ==
    IF parts = <<>> THEN <<>>
    ELSE IF Len(parts) = 1 THEN parts[1]
    ELSE parts[1] \o sep \o Join(sep, Tail(parts))

RECURSIVE Flatten(_)
Flatten(ss) == IF ss = <<>> THEN <<>> ELSE Head(ss) \o Flatten(Tail(ss))

-----------------------------------------------------------------------------
(* Text post-processing, lines 358-370 *)

Lower == {"a", "b", "c", "d", "e", "f", "g", "h", "i", "j", "k", "l", "m",
          "n", "o", "p", "q", "r", "s", "t", "u", "v", "w", "x", "y", "z"}
Upper == {"A", "B", "C", "D", "E", "F", "G", "H", "I", "J", "K", "L", "M",
          "N", "O", "P", "Q", "R", "S", "T", "U", "V", "W", "X", "Y", "Z"}
Digit == {"0", "1", "2", "3", "4", "5", "6", "7", "8", "9"}
Letter == Lower \cup Upper
Whitespace == {" ", "\t", "\n"}
UnitChars == {"k", "K", "m", "M", "w", "W", "v", "V", "a", "A"}

\* re.sub with a replacement that puts one space after the characters at `at`
SpaceAfter(s, at) == Flatten([i \in 1..Len(s) |-> IF i \in at THEN <<s[i], " ">> ELSE <<s[i]>>])

\* re.sub(r'([a-z])(\d)', r'\1 \2', text)
SubLowerDigit(s) ==
    SpaceAfter(s, {i \in 1..Len(s) - 1 : s[i] \in Lower /\ s[i + 1] \in Digit})

\* re.sub(r'(\d)([a-zA-Z])(?![kKmMwWvVaA])', r'\1 \2', text)
SubDigitLetter(s) ==
    SpaceAfter(s, {i \in 1..Len(s) - 1 :
                      /\ s[i] \in Digit
                      /\ s[i + 1] \in Letter
                      /\ ~(i + 2 <= Len(s) /\ s[i + 2] \in UnitChars)})

\* re.sub(r'([a-z])([A-Z])', r'\1 \2', text)
SubLowerUpper(s) ==
    SpaceAfter(s, {i \in 1..Len(s) - 1 : s[i] \in Lower /\ s[i + 1] \in Upper})

\* re.sub(r'\)([a-zA-Z])', r') \1', text)
SubParenLetter(s) ==
    SpaceAfter(s, {i \in 1..Len(s) - 1 : s[i] = ")" /\ s[i + 1] \in Letter})

\* re.sub(r'\s+', ' ', text)
RECURSIVE CollapseSpaces(_)
CollapseSpaces(s) ==
    IF s = <<>> THEN <<>>
    ELSE IF Head(s) \in Whitespace
         THEN IF Len(s) > 1 /\ s[2] \in Whitespace
              THEN CollapseSpaces(Tail(s))
              ELSE <<" ">> \o CollapseSpaces(Tail(s))
         ELSE <<Head(s)>> \o CollapseSpaces(Tail(s))

\* str.strip()
RECURSIVE Strip(_)
Strip(s) ==
    IF s = <<>> THEN <<>>
    ELSE IF Head(s) \in Whitespace THEN Strip(Tail(s))
    ELSE IF s[Len(s)] \in Whitespace THEN Strip(SubSeq(s, 1, Len(s) - 1))
    ELSE s

PostProcess(text) ==
    Strip(CollapseSpaces(SubParenLetter(SubLowerUpper(SubDigitLetter(SubLowerDigit(text))))))

-----------------------------------------------------------------------------
(* Block normalizer, lines 352-394 *)

\* one iteration of `for line in result[0]`: the block appended to raw_blocks
MakeBlock(line) ==
    LET box   == line[1]
        x_min == Min(box[1][1], box[4][1])
        x_max == Max(box[2][1], box[3][1])
        y_min == Min(box[1][2], box[2][2])
        y_max == Max(box[3][2], box[4][2])
    IN  [text       |-> PostProcess(line[2][1]),
         confidence |-> line[2][2],
         bbox       |-> box,
         y_min      |-> y_min,
         y_max      |-> y_max,
         y          |-> y_min + y_max,
         x_min      |-> x_min,
         x_max      |-> x_max,
         x          |-> x_min + x_max,
         width      |-> x_max - x_min,
         height     |-> y_max - y_min]

RECURSIVE SumConf(_)
SumConf(lines) == IF lines = <<>> THEN 0 ELSE lines[1][2][2] + SumConf(Tail(lines))

-----------------------------------------------------------------------------
(* Row clusterer, lines 403-426 *)

DefaultHeight == 30
DefaultWidth == 100

\* the lower of the two middle elements for an even length
MedianLower(values, default) ==
    IF values = <<>> THEN default ELSE Sorted(values)[((Len(values) - 1) \div 2) + 1]

\* sorted(values)[len(values)//2] if values else default
Median(values, default) ==
    IF values = <<>> THEN default ELSE Sorted(values)[(Len(values) \div 2) + 1]

Heights(bs) == [i \in 1..Len(bs) |-> bs[i].height]
Widths(bs) == [i \in 1..Len(bs) |-> bs[i].width]

\* row_threshold = median_height * 0.7, in tenths
RowThreshold(bs) == Median(Heights(bs), DefaultHeight) * RowFactor

\* the row's first block as a fixed anchor
AnchorY(current_row) == current_row[1].y

\* last_y = current_row[-1]["_y"]
LastY(current_row) == current_row[Len(current_row)].y

\* abs(b["_y"] - last_y) < row_threshold; y is doubled, the threshold in tenths
SameRow(b, last_y, threshold) == Tenths * Abs(b.y - last_y) < 2 * threshold

\* the loop without the rows.append(current_row) that follows it
RECURSIVE GroupRowsOpen(_, _, _, _)
GroupRowsOpen(rest, done, current_row, threshold) ==
    IF rest = <<>> THEN done
    ELSE IF Tenths * Abs(Head(rest).y - current_row[Len(current_row)].y) < 2 * threshold
         THEN GroupRowsOpen(Tail(rest), done, Append(current_row, Head(rest)), threshold)
         ELSE GroupRowsOpen(Tail(rest), Append(done, current_row), <<Head(rest)>>, threshold)

\* the loop `for b in raw_blocks[1:]` followed by rows.append(current_row)
RECURSIVE GroupRows(_, _, _, _)
GroupRows(rest, done, current_row, threshold) ==
    IF rest = <<>> THEN Append(done, current_row)
    ELSE IF SameRow(Head(rest), LastY(current_row), threshold)
         THEN GroupRows(Tail(rest), done, Append(current_row, Head(rest)), threshold)
         ELSE GroupRows(Tail(rest), Append(done, current_row), <<Head(rest)>>, threshold)

\* the rows left in y order
UnsortedRows(rs) == rs

\* for row in rows: row.sort(key=lambda b: b["_x_min"])
SortRows(rs) == [i \in 1..Len(rs) |-> SortByXMin(rs[i])]

-----------------------------------------------------------------------------
(* Column boundary detector, lines 428-450 *)

\* gap_threshold = median_width * 0.3, in tenths
GapThreshold(bs) == Median(Widths(bs), DefaultWidth) * GapFactor

\* is_new_col with `<=` for `<`
IsNewColInclusive(x, boundaries, gap) ==
    \A i \in 1..Len(boundaries) : ~(Tenths * Abs(x - boundaries[i]) <= gap)

\* the inner loop over col_boundaries: is_new_col
IsNewCol(x, boundaries, gap) ==
    \A i \in 1..Len(boundaries) : ~(Tenths * Abs(x - boundaries[i]) < gap)

\* the loop `for x in all_x_starts[1:]`
RECURSIVE ScanStarts(_, _, _)
ScanStarts(rest, boundaries, gap) ==
    IF rest = <<>> THEN boundaries
    ELSE IF IsNewCol(Head(rest), boundaries, gap)
         THEN ScanStarts(Tail(rest), Append(boundaries, Head(rest)), gap)
         ELSE ScanStarts(Tail(rest), boundaries, gap)

ColBoundaries(all_x_starts, gap) ==
    IF all_x_starts = <<>> THEN <<>>
    ELSE Sorted(ScanStarts(Tail(all_x_starts), <<all_x_starts[1]>>, gap))

-----------------------------------------------------------------------------
(* Cell assigner, lines 456-488 *)

\* block["_x_min"] >= col_x - gap_threshold
Passes(block, col_x, gap) == Tenths * block.x_min >= Tenths * col_x - gap

\* col_idx = 0; for i, col_x in enumerate(col_boundaries): if ...: col_idx = i
RECURSIVE ScanCols(_, _, _, _, _)
ScanCols(block, boundaries, gap, i, col_idx) ==
    IF i >= Len(boundaries) THEN col_idx
    ELSE ScanCols(block, boundaries, gap, i + 1,
                  IF Passes(block, boundaries[i + 1], gap) THEN i ELSE col_idx)

ColIdx(block, boundaries, gap) == ScanCols(block, boundaries, gap, 0, 0)

\* row_data[col_idx] after the block's text is added
AddText(cell, text) == IF cell # <<>> THEN cell \o <<" ">> \o text ELSE text

\* the last block's confidence instead of the maximum
LastConfidence(cell_conf, conf) == conf

\* row_confidences[col_idx] after the block is added
AddConfidence(cell_conf, conf) == Max(cell_conf, conf)

\* the loop `for block in row` over row_data and row_confidences
RECURSIVE FillRow(_, _, _, _)
FillRow(row, boundaries, gap, acc) ==
    IF row = <<>> THEN acc
    ELSE LET block == Head(row)
             c     == ColIdx(block, boundaries, gap) + 1
         IN  FillRow(Tail(row), boundaries, gap,
                     [cells       |-> [acc.cells EXCEPT ![c] = AddText(@, block.text)],
                      confidences |-> [acc.confidences EXCEPT
                                          ![c] = AddConfidence(@, block.confidence)]])

\* one entry of table_rows
TableRow(row_idx, row, boundaries, gap) ==
    LET num_cols == Len(boundaries)
        filled   == FillRow(row, boundaries, gap,
                            [cells |-> [c \in 1..num_cols |-> <<>>],
                             confidences |-> [c \in 1..num_cols |-> 0]])
    IN  [row |-> row_idx, cells |-> filled.cells, confidences |-> filled.confidences]

TableRows(rs, boundaries, gap) ==
    [i \in 1..Len(rs) |-> TableRow(i - 1, rs[i], boundaries, gap)]

\* the cells of a table row from the second column on
RECURSIVE CellBlocksAfterFirst(_, _)
CellBlocksAfterFirst(table_row, col_idx) ==
    IF col_idx + 1 >= Len(table_row.cells) THEN <<>>
    ELSE (IF table_row.cells[col_idx + 2] # <<>>
          THEN << [text       |-> table_row.cells[col_idx + 2],
                   confidence |-> table_row.confidences[col_idx + 2],
                   row        |-> table_row.row,
                   col        |-> col_idx + 1] >>
          ELSE <<>>)
         \o CellBlocksAfterFirst(table_row, col_idx + 1)

\* the entries of `blocks` of one table row: its non-empty cells
RECURSIVE CellBlocks(_, _)
CellBlocks(table_row, col_idx) ==
    IF col_idx >= Len(table_row.cells) THEN <<>>
    ELSE (IF table_row.cells[col_idx + 1] # <<>>
          THEN << [text       |-> table_row.cells[col_idx + 1],
                   confidence |-> table_row.confidences[col_idx + 1],
                   row        |-> table_row.row,
                   col        |-> col_idx] >>
          ELSE <<>>)
         \o CellBlocks(table_row, col_idx + 1)

FlatBlocks(trs) == Flatten([i \in 1..Len(trs) |-> CellBlocks(trs[i], 0)])

\* extracted_text: "\t".join(row["cells"]) for each row
ExtractedText(trs) == [i \in 1..Len(trs) |-> Join(<<"\t">>, trs[i].cells)]

\* round(confidence_sum / count, 4) if count > 0 else 0.0, in ten-thousandths
AvgConf(sum, n) == IF n > 0 THEN (2 * sum + n) \div (2 * n) ELSE 0

-----------------------------------------------------------------------------
(* The handler process_ocr *)

\* emit_log: request_logs.logs.append(...)
EmitLog(l, message) == Append(l, message)

\* the worker threads of the server
Threads == {"t1", "t2"}

\* no thread has run process_ocr yet: request_logs has no attribute anywhere
InitServer ==
    /\ thread_pc = [t \in Threads |-> "idle"]
    /\ request_logs = [t \in Threads |-> [has_logs |-> FALSE, logs |-> <<>>]]
    /\ request_of = [t \in Threads |-> 0]
    /\ step = [t \in Threads |-> 0]
    /\ emitted = [t \in Threads |-> <<>>]
    /\ handled = [t \in Threads |-> 0]
    /\ reply = [t \in Threads |-> [request |-> 0, status |-> 0, with_logs |-> FALSE,
                                   logs |-> <<>>, emitted |-> <<>>, nth |-> 0]]
    /\ next_request = 1

InitOver(lines) ==
    /\ InitServer
    /\ pc = "start"
    /\ engine = lines
    /\ result = <<>>
    /\ raw_blocks = <<>>
    /\ confidence_sum = 0
    /\ count = 0
    /\ rows = <<>>
    /\ row_threshold = 0
    /\ col_boundaries = <<>>
    /\ gap_threshold = 0
    /\ table_rows = <<>>
    /\ blocks = <<>>
    /\ extracted_text = <<>>
    /\ bound = {}
    /\ status = 0
    /\ response = [success |-> FALSE]
    /\ logs = <<>>

Init == InitOver(GeomLines)
InitCells == InitOver(CellLines)

\* lines 264-339: the log list is reset, the upload is read and decoded
BeginRequest ==
    /\ pc = "start"
    /\ logs' = EmitLog(EmitLog(EmitLog(<<>>, "[STEP 1/6]"), "[STEP 2/6]"), "[STEP 3/6]")
    /\ pc' = "ocr"
    /\ UNCHANGED server
    /\ UNCHANGED <<engine, result, raw_blocks, confidence_sum, count, rows, row_threshold,
                   col_boundaries, gap_threshold, table_rows, blocks, extracted_text,
                   bound, status, response>>

\* lines 341-345: result = ocr.ocr(img, cls=True)
RunOcr ==
    /\ pc = "ocr"
    /\ \E lines \in SeqsUpTo(engine, MaxBlocks) : result' = lines
    /\ logs' = EmitLog(logs, "[STEP 4/6]")
    /\ pc' = "parse"
    /\ UNCHANGED server
    /\ UNCHANGED <<engine, raw_blocks, confidence_sum, count, rows, row_threshold,
                   col_boundaries, gap_threshold, table_rows, blocks, extracted_text,
                   bound, status, response>>

\* lines 347-400: one block per detected line
ParseResults ==
    /\ pc = "parse"
    /\ raw_blocks' = [i \in 1..Len(result) |-> MakeBlock(result[i])]
    /\ confidence_sum' = SumConf(result)
    /\ count' = Len(result)
    /\ logs' = EmitLog(logs, "[STEP 5/6] Building")
    /\ blocks' = <<>>
    /\ table_rows' = <<>>
    /\ bound' = bound \cup {"raw_blocks", "confidence_sum", "count", "blocks", "table_rows"}
    /\ pc' = IF raw_blocks' # <<>> THEN "rows" ELSE "respond"
    /\ UNCHANGED server
    /\ UNCHANGED <<engine, result, rows, row_threshold, col_boundaries, gap_threshold,
                   extracted_text, status, response>>

\* lines 402-426: sort by y, cluster into rows, sort each row by x_min
ClusterRows ==
    /\ pc = "rows"
    /\ LET sorted == SortByY(raw_blocks)
           thr    == RowThreshold(sorted)
       IN  /\ raw_blocks' = sorted
           /\ row_threshold' = thr
           /\ rows' = SortRows(GroupRows(Tail(sorted), <<>>, <<sorted[1]>>, thr))
    /\ bound' = bound \cup {"rows", "row_threshold"}
    /\ pc' = "columns"
    /\ UNCHANGED server
    /\ UNCHANGED <<engine, result, confidence_sum, count, col_boundaries, gap_threshold,
                   table_rows, blocks, extracted_text, status, response, logs>>

\* lines 428-451: the column boundaries from all x_min values
DetectColumns ==
    /\ pc = "columns"
    /\ LET all_x_starts == Sorted([i \in 1..Len(raw_blocks) |-> raw_blocks[i].x_min])
           gap          == GapThreshold(raw_blocks)
       IN  /\ gap_threshold' = gap
           /\ col_boundaries' = ColBoundaries(all_x_starts, gap)
    /\ bound' = bound \cup {"col_boundaries", "gap_threshold"}
    /\ logs' = EmitLog(logs, "[STEP 5/6] Detected")
    /\ pc' = "format"
    /\ UNCHANGED server
    /\ UNCHANGED <<engine, result, raw_blocks, confidence_sum, count, rows, row_threshold,
                   table_rows, blocks, extracted_text, status, response>>

\* lines 453-494: the table rows, the flattened cells and the text lines
FormatOutput ==
    /\ pc = "format"
    /\ table_rows' = TableRows(rows, col_boundaries, gap_threshold)
    /\ blocks' = FlatBlocks(table_rows')
    /\ extracted_text' = ExtractedText(table_rows')
    /\ bound' = bound \cup {"extracted_text"}
    /\ logs' = EmitLog(logs, "[STEP 6/6] Formatting")
    /\ pc' = "respond"
    /\ UNCHANGED server
    /\ UNCHANGED <<engine, result, raw_blocks, confidence_sum, count, rows, row_threshold,
                   col_boundaries, gap_threshold, status, response>>

\* the log lines of 498-500, emitted before the response is built
FinalLogs == EmitLog(EmitLog(logs, "[STEP 6/6] Output formatted"), "[COMPLETE]")

\* lines 496-514: every name the response reads is bound
Respond ==
    /\ pc = "respond"
    /\ "extracted_text" \in bound
    /\ logs' = FinalLogs
    /\ status' = 200
    /\ response' = [success     |-> TRUE,
                    text        |-> Join(<<"\n">>, extracted_text),
                    confidence  |-> AvgConf(confidence_sum, count),
                    block_count |-> count,
                    blocks      |-> blocks,
                    table       |-> table_rows,
                    columns     |-> IF "col_boundaries" \in bound
                                    THEN Len(col_boundaries) ELSE 0,
                    logs        |-> logs']
    /\ pc' = "done"
    /\ UNCHANGED server
    /\ UNCHANGED <<engine, result, raw_blocks, confidence_sum, count, rows, row_threshold,
                   col_boundaries, gap_threshold, table_rows, blocks, extracted_text, bound>>

\* lines 507, 516-525: "\n".join(extracted_text) reads a name that was never
\* assigned; the NameError is caught by `except Exception`
RespondError ==
    /\ pc = "respond"
    /\ "extracted_text" \notin bound
    /\ logs' = EmitLog(FinalLogs, "[ERROR]")
    /\ status' = 500
    /\ response' = [success |-> FALSE,
                    error   |-> "Internal server error during OCR processing",
                    logs    |-> logs']
    /\ pc' = "done"
    /\ UNCHANGED server
    /\ UNCHANGED <<engine, result, raw_blocks, confidence_sum, count, rows, row_threshold,
                   col_boundaries, gap_threshold, table_rows, blocks, extracted_text, bound>>

Next ==
    \/ BeginRequest
    \/ RunOcr
    \/ ParseResults
    \/ ClusterRows
    \/ DetectColumns
    \/ FormatOutput
    \/ Respond
    \/ RespondError

Spec == Init /\ [][Next]_vars
SpecCells == InitCells /\ [][Next]_vars

-----------------------------------------------------------------------------
(* Concurrent /ocr requests: the log collection, lines 115-129, 264-265 *)

\* the messages of the emit_log calls of lines 286-500, in the order of the code
Messages ==
    <<"[STEP 1/6] Reading", "[STEP 1/6] Read", "[STEP 2/6] Decoding", "[STEP 2/6] Decoded",
      "[STEP 3/6] Detecting", "[STEP 3/6] complete", "[STEP 4/6] Running",
      "[STEP 4/6] complete", "[STEP 5/6] Building", "[STEP 5/6] Detected",
      "[STEP 6/6] Formatting", "[STEP 6/6] Output formatted", "[COMPLETE]">>

\* the emit_log calls after which the handler can return 503 or 400 (lines
\* 268-279, 289, 299): none, the first, the third
EarlyReturns == {0, 1, 3}

\* the call before `if raw_blocks:` and the first call after that block
BeforeTable == 9
AfterTable == 12

\* a plain module-level object: an assignment is seen by every thread
SetGlobal(store, t, value) == [u \in DOMAIN store |-> value]

\* request_logs = threading.local(): an attribute read in thread t
Local(store, t) == store[t]

\* request_logs = threading.local(): an assignment made in thread t
SetLocal(store, t, value) == [store EXCEPT ![t] = value]

\* request_logs.logs = []
ResetLogs(store, t) == SetLocal(store, t, [has_logs |-> TRUE, logs |-> <<>>])

\* emit_log called in thread t: collected only if the attribute exists
EmitLogIn(store, t, entry) ==
    IF Local(store, t).has_logs
    THEN SetLocal(store, t, [has_logs |-> TRUE, logs |-> EmitLog(Local(store, t).logs, entry)])
    ELSE store

\* getattr(request_logs, 'logs', [])
CollectedLogs(store, t) == IF Local(store, t).has_logs THEN Local(store, t).logs ELSE <<>>

\* a log entry; the request stands for the timestamp and text that make the
\* lines of one request its own
Entry(t, message) == [request |-> request_of[t], message |-> message]

\* line 265: a thread takes the next request and resets its log list
TBegin(t) ==
    /\ thread_pc[t] = "idle"
    /\ next_request <= MaxRequests
    /\ thread_pc' = [thread_pc EXCEPT ![t] = "running"]
    /\ request_logs' = ResetLogs(request_logs, t)
    /\ request_of' = [request_of EXCEPT ![t] = next_request]
    /\ next_request' = next_request + 1
    /\ step' = [step EXCEPT ![t] = 0]
    /\ emitted' = [emitted EXCEPT ![t] = <<>>]
    /\ handled' = [handled EXCEPT ![t] = @ + 1]
    /\ UNCHANGED <<reply, run>>

\* the next emit_log call of the request; with no blocks the calls of lines
\* 451 and 455 are skipped
TEmit(t) ==
    /\ thread_pc[t] = "running"
    /\ step[t] < Len(Messages)
    /\ \E n \in {step[t] + 1} \cup (IF step[t] = BeforeTable THEN {AfterTable} ELSE {}) :
           /\ request_logs' = EmitLogIn(request_logs, t, Entry(t, Messages[n]))
           /\ emitted' = [emitted EXCEPT ![t] = Append(@, Entry(t, Messages[n]))]
           /\ step' = [step EXCEPT ![t] = n]
    /\ UNCHANGED <<thread_pc, request_of, handled, reply, next_request, run>>

\* lines 268-279, 289, 299: a 503 or 400 response, which carries no logs
TReturnEarly(t) ==
    /\ thread_pc[t] = "running"
    /\ step[t] \in EarlyReturns
    /\ reply' = [reply EXCEPT ![t] = [request |-> request_of[t], status |-> 400,
                                      with_logs |-> FALSE, logs |-> <<>>,
                                      emitted |-> emitted[t], nth |-> handled[t]]]
    /\ thread_pc' = [thread_pc EXCEPT ![t] = "idle"]
    /\ UNCHANGED <<request_logs, request_of, step, emitted, handled, next_request, run>>

\* lines 502-514: the response of a run that reached the end
TRespond(t) ==
    /\ thread_pc[t] = "running"
    /\ step[t] = Len(Messages)
    /\ reply' = [reply EXCEPT ![t] = [request |-> request_of[t], status |-> 200,
                                      with_logs |-> TRUE,
                                      logs |-> CollectedLogs(request_logs, t),
                                      emitted |-> emitted[t], nth |-> handled[t]]]
    /\ thread_pc' = [thread_pc EXCEPT ![t] = "idle"]
    /\ UNCHANGED <<request_logs, request_of, step, emitted, handled, next_request, run>>

\* lines 516-525: an exception inside the try block is logged and answered
\* with 500 and the logs
TFail(t) ==
    /\ thread_pc[t] = "running"
    /\ LET entry == Entry(t, "[ERROR]")
           store == EmitLogIn(request_logs, t, entry)
       IN  /\ request_logs' = store
           /\ emitted' = [emitted EXCEPT ![t] = Append(@, entry)]
           /\ reply' = [reply EXCEPT ![t] = [request |-> request_of[t], status |-> 500,
                                             with_logs |-> TRUE,
                                             logs |-> CollectedLogs(store, t),
                                             emitted |-> emitted'[t],
                                             nth |-> handled[t]]]
    /\ thread_pc' = [thread_pc EXCEPT ![t] = "idle"]
    /\ UNCHANGED <<request_of, step, handled, next_request, run>>

NextThreads ==
    \E t \in Threads :
        \/ TBegin(t)
        \/ TEmit(t)
        \/ TReturnEarly(t)
        \/ TRespond(t)
        \/ TFail(t)

InitThreads == InitOver({})

SpecThreads == InitThreads /\ [][NextThreads]_vars

-----------------------------------------------------------------------------
(* Properties *)

\* the blocks of the run in the order of the detections
InputBlocks == [i \in 1..Len(result) |-> MakeBlock(result[i])]

Occurrences(b, seq) == Cardinality({i \in 1..Len(seq) : seq[i] = b})

RECURSIVE SumLen(_)
SumLen(ss) == IF ss = <<>> THEN 0 ELSE Len(Head(ss)) + SumLen(Tail(ss))

RECURSIVE OccurrencesInRows(_, _)
OccurrencesInRows(b, rs) ==
    IF rs = <<>> THEN 0 ELSE Occurrences(b, Head(rs)) + OccurrencesInRows(b, Tail(rs))

Finished == pc = "done"
Clustered == "rows" \in bound
ColumnsKnown == "col_boundaries" \in bound

\* C1: for an empty detection list the run ends without an error outcome, with
\* zero table rows, column count 0, average confidence 0 and an empty text.
C1_EmptyInputSucceeds ==
    (Finished /\ result = <<>>) =>
        /\ status = 200
        /\ response.table = <<>>
        /\ response.columns = 0
        /\ response.confidence = 0
        /\ response.text = <<>>

\* C2: the rows partition the input blocks: every input block is in the rows
\* exactly as often as it is in the input (once per detection), no row is
\* empty, and the rows hold as many blocks as the input.
C2_RowsPartitionBlocks ==
    (Clustered /\ result # <<>>) =>
        LET input == InputBlocks
        IN  /\ \A r \in 1..Len(rows) : rows[r] # <<>>
            /\ SumLen(rows) = Len(input)
            /\ \A i \in 1..Len(input) :
                   OccurrencesInRows(input[i], rows) = Occurrences(input[i], input)
            /\ \A r \in 1..Len(rows) : \A k \in 1..Len(rows[r]) :
                   \E i \in 1..Len(input) : input[i] = rows[r][k]

C2_Witness ==
    /\ Finished
    /\ Len(rows) >= 2
    /\ \E r \in 1..Len(rows) : Len(rows[r]) >= 2

\* the element of values at index k (from 0) of their ascending order
IsRanked(values, k, m) ==
    /\ \E i \in 1..Len(values) : values[i] = m
    /\ Cardinality({i \in 1..Len(values) : values[i] < m}) <= k
    /\ Cardinality({i \in 1..Len(values) : values[i] <= m}) > k

\* the consecutive pairs of the y-sorted blocks that are a row_threshold or more apart
RowBreaks ==
    {i \in 1..Len(raw_blocks) - 1 :
        Tenths * Abs(raw_blocks[i + 1].y - raw_blocks[i].y) >= 2 * row_threshold}

\* the k-th run of the y-sorted blocks between two of the breaks, as positions
RowSegment(breaks, k) ==
    {i \in 1..Len(raw_blocks) : Cardinality({j \in breaks : j < i}) = k - 1}

\* C3: with the blocks sorted ascending by y_center and row_threshold = 0.7 *
\* median_height, a block joins the row of its predecessor iff their y_centers
\* differ by strictly less than row_threshold; so there is one row more than
\* there are consecutive pairs a row_threshold or more apart, and each row is
\* one run of blocks between two such pairs.
C3_ChainingRows ==
    (Clustered /\ result # <<>>) =>
        /\ \A i \in 1..Len(raw_blocks) - 1 : raw_blocks[i].y <= raw_blocks[i + 1].y
        /\ \E m \in {raw_blocks[i].height : i \in 1..Len(raw_blocks)} :
               /\ IsRanked(Heights(raw_blocks), Len(raw_blocks) \div 2, m)
               /\ row_threshold = RowFactor * m
        /\ LET breaks == RowBreaks
           IN  /\ Len(rows) = 1 + Cardinality(breaks)
               /\ \A k \in 1..Len(rows) :
                      LET segment == RowSegment(breaks, k)
                      IN  /\ Len(rows[k]) = Cardinality(segment)
                          /\ \A i \in segment :
                                 Occurrences(raw_blocks[i], rows[k])
                                     = Cardinality({j \in segment :
                                                       raw_blocks[j] = raw_blocks[i]})

\* a row drifts: its vertical span exceeds row_threshold
C3_Witness ==
    /\ Finished
    /\ row_threshold > 0
    /\ \E r \in 1..Len(rows) : \E a, b \in 1..Len(rows[r]) :
           Tenths * Abs(rows[r][a].y - rows[r][b].y) > 2 * row_threshold

\* the two middle elements of an even-length list differ
MiddlesDiffer(values) ==
    /\ Len(values) % 2 = 0
    /\ Len(values) > 0
    /\ ~ \E m \in {values[i] : i \in 1..Len(values)} :
           /\ IsRanked(values, Len(values) \div 2, m)
           /\ IsRanked(values, (Len(values) \div 2) - 1, m)

\* C4 as stated: the median behind row_threshold and gap_threshold is the
\* middle element for odd length and the lower-middle element, the smaller of
\* the two middle values, for even length.
C4_LowerMiddleMedian ==
    (ColumnsKnown /\ result # <<>>) =>
        /\ \E m \in {raw_blocks[i].height : i \in 1..Len(raw_blocks)} :
               /\ IsRanked(Heights(raw_blocks), (Len(raw_blocks) - 1) \div 2, m)
               /\ row_threshold = RowFactor * m
        /\ \E m \in {raw_blocks[i].width : i \in 1..Len(raw_blocks)} :
               /\ IsRanked(Widths(raw_blocks), (Len(raw_blocks) - 1) \div 2, m)
               /\ gap_threshold = GapFactor * m

\* C4 amended: the median behind row_threshold and gap_threshold is the
\* element at index floor(n/2) of the sorted values: the middle element for
\* odd length and the upper-middle element, the larger of the two middle
\* values, for even length.
C4_UpperMiddleMedian ==
    (ColumnsKnown /\ result # <<>>) =>
        /\ \E m \in {raw_blocks[i].height : i \in 1..Len(raw_blocks)} :
               /\ IsRanked(Heights(raw_blocks), Len(raw_blocks) \div 2, m)
               /\ row_threshold = RowFactor * m
        /\ \E m \in {raw_blocks[i].width : i \in 1..Len(raw_blocks)} :
               /\ IsRanked(Widths(raw_blocks), Len(raw_blocks) \div 2, m)
               /\ gap_threshold = GapFactor * m

C4_Witness ==
    /\ ColumnsKnown
    /\ MiddlesDiffer(Heights(raw_blocks))
    /\ MiddlesDiffer(Widths(raw_blocks))

-----------------------------------------------------------------------------
(* Properties of the column boundaries *)

\* all x_min values, ascending
AllXStarts == Sorted([i \in 1..Len(raw_blocks) |-> raw_blocks[i].x_min])

FarEnough(x, bx) == Tenths * Abs(x - bx) >= gap_threshold

\* acc holds the positions of the sorted starts xs that the rule of C5 accepts
AcceptedByRule(xs, acc) ==
    /\ 1 \in acc
    /\ \A k \in 2..Len(xs) :
           k \in acc <=> \A j \in acc : j < k => FarEnough(xs[k], xs[j])

\* the values of xs at the positions acc, in order
Picked(xs, acc) ==
    [n \in 1..Cardinality(acc) |->
        xs[CHOOSE k \in acc : Cardinality({j \in acc : j < k}) = n - 1]]

\* C5: the boundaries are the x_min values, taken in ascending order, that
\* are the smallest x_min or at least gap_threshold (0.3 * median_width) away
\* from every boundary accepted before; so they are ascending, start at the
\* minimum x_min, differ pairwise by at least gap_threshold, and every block's
\* x_min is a boundary or within gap_threshold of one.
C5_BoundaryAcceptance ==
    (ColumnsKnown /\ result # <<>>) =>
        /\ \E m \in {raw_blocks[i].width : i \in 1..Len(raw_blocks)} :
               /\ IsRanked(Widths(raw_blocks), Len(raw_blocks) \div 2, m)
               /\ gap_threshold = GapFactor * m
        /\ LET xs == AllXStarts
           IN  \E acc \in SUBSET (1..Len(xs)) :
                   /\ Cardinality(acc) = Len(col_boundaries)
                   /\ AcceptedByRule(xs, acc)
                   /\ col_boundaries = Picked(xs, acc)
        /\ \A i \in 1..Len(col_boundaries) - 1 : col_boundaries[i] <= col_boundaries[i + 1]
        /\ \A i \in 1..Len(raw_blocks) : col_boundaries[1] <= raw_blocks[i].x_min
        /\ \E i \in 1..Len(raw_blocks) : col_boundaries[1] = raw_blocks[i].x_min
        /\ \A i, j \in 1..Len(col_boundaries) :
               i # j => FarEnough(col_boundaries[i], col_boundaries[j])
        /\ \A i \in 1..Len(raw_blocks) : \E c \in 1..Len(col_boundaries) :
               \/ col_boundaries[c] = raw_blocks[i].x_min
               \/ ~FarEnough(raw_blocks[i].x_min, col_boundaries[c])

\* several boundaries under a positive threshold, and an x_min that is none
C5_Witness ==
    /\ Finished
    /\ gap_threshold > 0
    /\ Len(col_boundaries) >= 2
    /\ \E i \in 1..Len(raw_blocks) :
           \A c \in 1..Len(col_boundaries) : col_boundaries[c] # raw_blocks[i].x_min

\* C6: the boundary sequence is strictly ascending, holds no x-coordinate
\* twice, and the reported column count is at most the number of distinct
\* x_min values.
C6_DistinctBoundaries ==
    (Finished /\ result # <<>>) =>
        /\ \A i \in 1..Len(col_boundaries) - 1 : col_boundaries[i] < col_boundaries[i + 1]
        /\ \A i, j \in 1..Len(col_boundaries) :
               i # j => col_boundaries[i] # col_boundaries[j]
        /\ status = 200
        /\ response.columns
               <= Cardinality({raw_blocks[i].x_min : i \in 1..Len(raw_blocks)})

\* the column indices (from 0) whose boundary the block passes
PassedCols(block) ==
    {i \in 0..Len(col_boundaries) - 1 :
        Tenths * block.x_min >= Tenths * col_boundaries[i + 1] - gap_threshold}

\* the (row, column) slots that hold text, as the flattened list names them
TextSlots == {<<blocks[n].row, blocks[n].col>> : n \in 1..Len(blocks)}

\* C7: every block of every row lies in the column of the largest index i
\* with x_min >= boundary[i] - gap_threshold; some boundary always qualifies,
\* so the index is within 0..column_count-1 and the default 0 is never the
\* index of a block that passes no boundary.
C7_ColumnIsLastPassed ==
    (Finished /\ result # <<>>) =>
        \A r \in 1..Len(rows) : \A k \in 1..Len(rows[r]) :
            LET block == rows[r][k]
                col   == ColIdx(block, col_boundaries, gap_threshold)
            IN  /\ PassedCols(block) # {}
                /\ col \in PassedCols(block)
                /\ \A i \in PassedCols(block) : i <= col
                /\ col \in 0..Len(col_boundaries) - 1
                /\ block.text # <<>> => <<r - 1, col>> \in TextSlots

-----------------------------------------------------------------------------
(* Properties of the cells *)

\* the blocks of row r (from 1) that the assigner puts in column c (from 0),
\* in the order of the row
InCell(r, c) ==
    LET Here(b) == ColIdx(b, col_boundaries, gap_threshold) = c
    IN  SelectSeq(rows[r], Here)

Texts(bs) == [i \in 1..Len(bs) |-> bs[i].text]

\* the largest confidence among bs, 0 for none
TopConfidence(bs, m) ==
    IF bs = <<>> THEN m = 0
    ELSE /\ \E i \in 1..Len(bs) : bs[i].confidence = m
         /\ \A i \in 1..Len(bs) : bs[i].confidence <= m

\* the texts from the first non-empty one on
FromFirstText(ts) ==
    IF \A i \in 1..Len(ts) : ts[i] = <<>> THEN <<>>
    ELSE SubSeq(ts, CHOOSE i \in 1..Len(ts) :
                        ts[i] # <<>> /\ \A j \in 1..i - 1 : ts[j] = <<>>,
                Len(ts))

RowsLeftToRight ==
    \A r \in 1..Len(rows) : \A k \in 1..Len(rows[r]) - 1 :
        rows[r][k].x_min <= rows[r][k + 1].x_min

GridShape ==
    /\ status = 200
    /\ response.table = table_rows
    /\ Len(table_rows) = Len(rows)
    /\ \A r \in 1..Len(rows) :
           /\ Len(table_rows[r].cells) = response.columns
           /\ Len(table_rows[r].confidences) = response.columns

\* C8 as stated: every cell's text is the texts of the row's blocks assigned
\* to its column, in ascending x_min order, with exactly one space between
\* consecutive texts; its confidence is their maximum; a cell without a block
\* is empty with confidence 0; every row has column_count cells and
\* confidences.
C8_CellJoinsAllTexts ==
    (Finished /\ result # <<>>) =>
        /\ GridShape
        /\ RowsLeftToRight
        /\ \A r \in 1..Len(rows) : \A c \in 0..response.columns - 1 :
               /\ table_rows[r].cells[c + 1] = Join(<<" ">>, Texts(InCell(r, c)))
               /\ TopConfidence(InCell(r, c), table_rows[r].confidences[c + 1])

\* C8 amended: as C8, but a space goes before a block's text only when the
\* cell already holds text: the cell is the texts from the first non-empty one
\* on, joined with single spaces (a block whose text is only whitespace has an
\* empty text and adds no space while the cell is still empty).
C8_CellJoinsFromFirstText ==
    (Finished /\ result # <<>>) =>
        /\ GridShape
        /\ RowsLeftToRight
        /\ \A r \in 1..Len(rows) : \A c \in 0..response.columns - 1 :
               /\ table_rows[r].cells[c + 1]
                      = Join(<<" ">>, FromFirstText(Texts(InCell(r, c))))
               /\ TopConfidence(InCell(r, c), table_rows[r].confidences[c + 1])

\* a cell merges two texts of different confidence, the lower one last, next
\* to an empty cell
C8_Witness ==
    /\ Finished
    /\ status = 200
    /\ \E r \in 1..Len(rows) : \E c, e \in 0..Len(col_boundaries) - 1 :
           /\ Len(InCell(r, c)) = 2
           /\ InCell(r, c)[1].text # <<>>
           /\ InCell(r, c)[2].text # <<>>
           /\ InCell(r, c)[1].confidence > InCell(r, c)[2].confidence
           /\ InCell(r, e) = <<>>

NoCollision ==
    \A r \in 1..Len(rows) : \A c \in 0..Len(col_boundaries) - 1 : Len(InCell(r, c)) <= 1

\* C9 as stated: when no two blocks of a row share a column, the flattened
\* list of non-empty cells has as many entries as there are input blocks.
C9_EveryBlockListed ==
    (Finished /\ result # <<>> /\ NoCollision) =>
        /\ status = 200
        /\ Len(response.blocks) = Len(result)

\* C9 amended: when no two blocks of a row share a column, the flattened list
\* has one entry per input block with a non-empty text, tagged with the
\* block's row and column and carrying its text and confidence; a block whose
\* text is empty (only whitespace was recognised) has no entry.
C9_EveryTextBlockListed ==
    (Finished /\ result # <<>> /\ NoCollision) =>
        /\ status = 200
        /\ Len(response.blocks)
               = Cardinality({i \in 1..Len(raw_blocks) : raw_blocks[i].text # <<>>})
        /\ \A r \in 1..Len(rows) : \A k \in 1..Len(rows[r]) :
               rows[r][k].text # <<>> =>
                   \E n \in 1..Len(response.blocks) :
                       response.blocks[n]
                           = [text       |-> rows[r][k].text,
                              confidence |-> rows[r][k].confidence,
                              row        |-> r - 1,
                              col        |-> ColIdx(rows[r][k], col_boundaries,
                                                    gap_threshold)]

\* a run without collisions over two rows, one block with an empty text
C9_Witness ==
    /\ Finished
    /\ NoCollision
    /\ Len(rows) >= 2
    /\ Len(raw_blocks) >= 3
    /\ \E i \in 1..Len(raw_blocks) : raw_blocks[i].text = <<>>
    /\ \E i \in 1..Len(raw_blocks) : raw_blocks[i].text # <<>>

\* two blocks of a row, in the row's order, less than gap_threshold apart
ClosePair(r, i, j) ==
    /\ i < j
    /\ Tenths * Abs(rows[r][i].x_min - rows[r][j].x_min) < gap_threshold

-----------------------------------------------------------------------------
(* Properties of the blocks *)

\* C11: every block the normalizer creates has width >= 0, height >= 0,
\* x_min <= x_max and y_min <= y_max, whatever the quadrilateral: a negative
\* width or height is clamped to zero before the medians and thresholds use it.
C11_BlockGeometry ==
    ("raw_blocks" \in bound) =>
        /\ \A i \in 1..Len(raw_blocks) :
               /\ raw_blocks[i].width >= 0
               /\ raw_blocks[i].height >= 0
               /\ raw_blocks[i].x_min <= raw_blocks[i].x_max
               /\ raw_blocks[i].y_min <= raw_blocks[i].y_max
        /\ ColumnsKnown => (row_threshold >= 0 /\ gap_threshold >= 0)

-----------------------------------------------------------------------------
(* Properties of the log collection *)

\* C12: under any interleaving of /ocr requests on different threads, the
\* log list of a response holds exactly the entries its own request passed to
\* emit_log, in that order: none of another request, none left from an
\* earlier request of the same thread; and so does the list of a running
\* request at every moment.
C12_LogsArePerRequest ==
    \A t \in Threads :
        /\ reply[t].with_logs =>
               /\ reply[t].logs = reply[t].emitted
               /\ \A i \in 1..Len(reply[t].logs) : reply[t].logs[i].request = reply[t].request
        /\ thread_pc[t] = "running" =>
               /\ CollectedLogs(request_logs, t) = emitted[t]
               /\ \A i \in 1..Len(emitted[t]) : emitted[t][i].request = request_of[t]

\* a thread has answered its second request, begun and ended while the other
\* thread was inside an earlier request that has already logged
C12_Witness ==
    \E t, u \in Threads :
        /\ t # u
        /\ reply[t].status = 200
        /\ reply[t].logs # <<>>
        /\ reply[t].nth >= 2
        /\ thread_pc[u] = "running"
        /\ emitted[u] # <<>>
        /\ request_of[u] < reply[t].request

====
